---- MODULE Spec2Model ----
(***************************************************************************)
(* A model of the PDF-to-Markdown converter: the chunk planner             *)
(* (app/pdf_processor.py), the per-chunk lifecycle kept in lock files and  *)
(* output files (app/converter.py, app/main.py), the periodic daemon pass  *)
(* (app/daemon.py) and the daemon's instance lock.                         *)
(*                                                                         *)
(* The specifications of the module share its variables:                   *)
(*   SpecPlan    calculate_chunks applied to bounded inputs;               *)
(*   Spec        complete CLI runs and daemon passes over two documents;   *)
(*   SpecLost    Spec over one document, with uploads the service accepts  *)
(*               and the client never learns of;                           *)
(*   SpecFault   Spec over one document, with finalize interrupted between *)
(*               writing the output and removing the lock;                 *)
(*   SpecStore   Spec over one document, with failing file operations;     *)
(*   SpecKill    Spec over one document, with CLI processes killed;        *)
(*   SpecDaemon  fair daemon passes only;                                  *)
(*   SpecService SpecDaemon with a service that completes its jobs;        *)
(*   SpecMove    Spec over one document, with failing moves to done;       *)
(*   SpecConvert convert-only runs;                                        *)
(*   SpecHandle  the handle written to a lock file and read back;          *)
(*   SpecLock    daemon instances racing for the instance lock.            *)
(***************************************************************************)
EXTENDS Integers, Sequences, FiniteSets, TLC

VARIABLES
    \* ---- planner (SpecPlan) ----
    file_size_mb,   \* argument of calculate_chunks (whole megabytes)
    num_pages,      \* argument of calculate_chunks
    chunks,         \* the list calculate_chunks returned
    plan_pc,        \* "input" | "returned" | "ZeroDivisionError"
    \* ---- filesystem ----
    input,          \* documents present in the input folder
    pdfs,           \* chunk artifacts {chunk}.pdf in the output folder
    locks,          \* lock files: chunk -> text of {chunk}.pdf.lock
    mds,            \* output files: chunk -> text of {chunk}.md
    concats,        \* documents with a {base}_concat_pages_1_N.md in output
    done,           \* files in the done folder
    \* ---- external service ----
    jobs,           \* accepted submissions, in the order accepted
    \* ---- processes ----
    cli,            \* the running `python -m app` process, or idle
    dmn,            \* the running daemon pass, or idle
    \* ---- history ----
    untouched,      \* the documents whose state store is still as their
                    \* last completed upload phase left it
    \* ---- daemon instance lock (SpecLock) ----
    instances,      \* each daemon process: where it is, and its lock_fd
    lock_file,      \* the inode LOCK_FILE names, 0 when the path is absent
    inodes,         \* how many inodes open(LOCK_FILE, 'w') has created
    flocks          \* the inodes on which an exclusive flock is held

plan_vars == <<file_size_mb, num_pages, chunks, plan_pc>>
fs_vars == <<input, pdfs, locks, mds, concats, done>>
life_vars == <<fs_vars, jobs, cli, dmn, untouched>>

lock_vars == <<instances, lock_file, inodes, flocks>>

vars == <<plan_vars, life_vars, lock_vars>>

Min(a, b) == IF a < b THEN a ELSE b
Max(a, b) == IF a > b THEN a ELSE b

(***************************************************************************)
(* Bounds of the planner's inputs.                                         *)
(***************************************************************************)
MaxPages == 401
MaxHugePages == 8

\* Sizes on both sides of the 50 MB threshold, and a negative one, tried with
\* every page count up to MaxPages.
PlanSizes == {-1, 30, 50, 51, 60, 100, 200}

\* A size whose average page exceeds 40 MB (pages_per_40mb = 0), tried with
\* the page counts up to MaxHugePages: one range per page.
HugeSizes == {8100}

PlanInputs ==
    (PlanSizes \X (0..MaxPages)) \cup (HugeSizes \X (0..MaxHugePages))

(***************************************************************************)
(* pdf_processor.calculate_chunks                                          *)
(***************************************************************************)

\* math.floor(40 / (file_size_mb / num_pages)) is computed in IEEE doubles.
\* For integers s, p the exact value is (40 * p) \div s; the double quotient
\* falls just below the exact one for the pairs listed here (all the pairs
\* with s in PlanSizes and p < 460 where CPython's result differs), and the
\* floor is then one less.
FloatFloorDeficit ==
    { <<60, 87>>, <<60, 159>>, <<60, 174>>, <<60, 318>>, <<60, 348>>,
      <<60, 357>>, <<100, 145>>, <<100, 265>>, <<100, 290>>,
      <<200, 145>>, <<200, 265>>, <<200, 290>> }

pages_per_40mb(size, pages) ==
    ((40 * pages) \div size)
        - (IF <<size, pages>> \in FloatFloorDeficit THEN 1 ELSE 0)

\* pages_per_chunk = max(1, min(pages_per_40mb, 190))
pages_per_chunk_unclamped(size, pages) == Min(pages_per_40mb(size, pages), 190)
pages_per_chunk_from_two(size, pages) ==
    Max(2, Min(pages_per_40mb(size, pages), 190))
pages_per_chunk_uncapped(size, pages) == Max(1, pages_per_40mb(size, pages))
pages_per_chunk(size, pages) == Max(1, Min(pages_per_40mb(size, pages), 190))

\* end_page = min(current_page + pages_per_chunk - 1, num_pages)
end_page_untruncated(current_page, per_chunk, pages) ==
    current_page + per_chunk - 1
end_page(current_page, per_chunk, pages) ==
    Min(current_page + per_chunk - 1, pages)

\* while current_page <= num_pages: append (current_page, end_page);
\*                                  current_page = end_page + 1
RECURSIVE walk(_, _, _)
walk(current_page, per_chunk, pages) ==
    IF current_page <= pages
    THEN LET e == end_page(current_page, per_chunk, pages)
         IN  <<<<current_page, e>>>> \o walk(e + 1, per_chunk, pages)
    ELSE <<>>

\* `if file_size_mb > 50` and `elif num_pages > 200`
size_at_or_over_limit(size) == size >= 50
over_size_limit(size) == size > 50
never_over_page_limit(pages) == FALSE
over_higher_page_limit(pages) == pages > 210
over_page_limit(pages) == pages > 200

\* file_size_mb / num_pages with num_pages = 0 raises ZeroDivisionError.
calculate_chunks_raises(size, pages) == over_size_limit(size) /\ pages = 0

calculate_chunks(size, pages) ==
    IF over_size_limit(size) THEN walk(1, pages_per_chunk(size, pages), pages)
    ELSE IF over_page_limit(pages) THEN walk(1, 190, pages)
    ELSE <<<<1, pages>>>>

(***************************************************************************)
(* The documents of the lifecycle model.  Their plans come from            *)
(* calculate_chunks: "a" (30 MB, 3 pages) is within both limits and is     *)
(* copied as one chunk; "b" (60 MB, 2 pages) is over the size limit and is *)
(* split into two one-page chunks.                                         *)
(***************************************************************************)
Docs == {"a", "b"}

\* glob.glob over the input folder: the order the daemon visits documents.
DocOrder == <<"a", "b">>

DocSizeMb(d) == IF d = "a" THEN 30 ELSE 60
DocPages(d) == IF d = "a" THEN 3 ELSE 2

\* main.py step 2: chunks = calculate_chunks(size_mb, num_pages)
Plan(d) == calculate_chunks(DocSizeMb(d), DocPages(d))

\* The identity {base}_pages_{start}_{end}, kept as its three parts.
ChunkName(d, range) == <<d, range[1], range[2]>>

\* main.py step 3: files_to_convert, one artifact per range, in plan order
\* (shutil.copy for an unsplit document, split_pdf otherwise).
files_in_reverse(d) ==
    [i \in 1..Len(Plan(d)) |-> ChunkName(d, Plan(d)[Len(Plan(d)) + 1 - i])]
files_to_convert(d) == [i \in 1..Len(Plan(d)) |-> ChunkName(d, Plan(d)[i])]

NumFiles(d) == Len(files_to_convert(d))
ChunksOf(d) == {files_to_convert(d)[i] : i \in 1..NumFiles(d)}
AllChunks == UNION {ChunksOf(d) : d \in Docs}

(***************************************************************************)
(* Files as maps from name to content.                                     *)
(***************************************************************************)
Exists(files, name) == name \in DOMAIN files
WriteFile(files, name, text) ==
    [n \in (DOMAIN files) \cup {name} |-> IF n = name THEN text ELSE files[n]]
RemoveFile(files, name) == [n \in (DOMAIN files) \ {name} |-> files[n]]
NoFiles == [n \in {} |-> ""]

\* The lock and output records of one document's chunks: its state store.
StoreOf(d) ==
    [known |-> TRUE,
     lock |-> [c \in (DOMAIN locks) \cap ChunksOf(d) |-> locks[c]],
     md   |-> [c \in (DOMAIN mds) \cap ChunksOf(d) |-> mds[c]]]
NoStore == [known |-> FALSE, lock |-> NoFiles, md |-> NoFiles]

(***************************************************************************)
(* Text of a handle: str(record_id) when the lock is written, and          *)
(* f.read().strip() when it is read back.                                  *)
(***************************************************************************)
Digits == <<"0", "1", "2", "3", "4", "5", "6", "7", "8", "9">>

RECURSIVE str(_)
str(n) ==
    IF n < 10 THEN <<Digits[n + 1]>>
    ELSE str(n \div 10) \o <<Digits[(n % 10) + 1]>>

Whitespace == {" ", "\n", "\t", "\r"}

RECURSIVE lstrip(_)
lstrip(text) ==
    IF text # <<>> /\ Head(text) \in Whitespace THEN lstrip(Tail(text))
    ELSE text

RECURSIVE rstrip(_)
rstrip(text) ==
    IF text # <<>> /\ text[Len(text)] \in Whitespace
    THEN rstrip(SubSeq(text, 1, Len(text) - 1))
    ELSE text

\* The characters of a Python string literal.
Chars(n) ==
    IF n = "_pages_" THEN <<"_", "p", "a", "g", "e", "s", "_">>
    ELSE IF n = ".pdf" THEN <<".", "p", "d", "f">>
    ELSE IF n = ".pdf.lock" THEN <<".", "p", "d", "f", ".", "l", "o", "c", "k">>
    ELSE IF n = ".md" THEN <<".", "m", "d">>
    ELSE <<n>>

\* split_pdf line 71 and main.py line 133:
\* f"{base_name}_pages_{start_page}_{end_page}.pdf"
chunk_filename_by_length(base_name, range) ==
    base_name \o Chars("_pages_") \o str(range[2] - range[1] + 1)
        \o Chars(".pdf")
chunk_filename(base_name, range) ==
    base_name \o Chars("_pages_") \o str(range[1]) \o Chars("_")
        \o str(range[2]) \o Chars(".pdf")

\* os.path.splitext(name)[0] of a name that ends in ".pdf"
splitext0(name) == SubSeq(name, 1, Len(name) - Len(Chars(".pdf")))

\* upload_chunk and retrieve_chunk lines 27-29 / 58-60
lock_file_path(file_path) == splitext0(file_path) \o Chars(".pdf.lock")
output_md_path(file_path) == splitext0(file_path) \o Chars(".md")

\* f.read(2) in place of f.read().strip()
read_two_chars(text) == SubSeq(text, 1, Min(Len(text), 2))
strip(text) == rstrip(lstrip(text))

(***************************************************************************)
(* The external service.  A job is [chunk, status, acked]; the handle      *)
(* (record_id) of the k-th accepted job is FirstHandle + k - 1.  A job is  *)
(* "processing" until the service completes or fails it, and then stays    *)
(* so.  acked tells whether upload_file returned the job's record_id: the  *)
(* service may accept a file and the client still get None (the response   *)
(* is lost, is not JSON, or carries no record_id).                         *)
(***************************************************************************)
FirstHandle == 9

\* The number of accepted jobs whose record_id the client never got.
MaxLost == 1

\* The markdown a completed job may carry: empty, ordinary, and a text that
\* equals a status word.
Contents == {"", "# Success", "processing"}

\* What the service may report as processing_status of a job it has not
\* finished; "queued" stands for any status word the client does not know.
LiveStatuses == {"processing", "queued"}

HandleOf(k) == FirstHandle + k - 1
Handles == {HandleOf(k) : k \in 1..Len(jobs)}
JobOf(h) == jobs[h - FirstHandle + 1]
NewJob(c, acked) == [chunk |-> c, status |-> "processing", acked |-> acked]
Lost == {k \in 1..Len(jobs) : ~jobs[k].acked}

\* The job a poll URL /files/{record_id} names, if any.
JobsNamed(text) == {h \in Handles : str(h) = text}

\* poll(handle): a JSON body, or a transport / HTTP / parse error.
Response(ok, status, content) ==
    [ok |-> ok, status |-> status, content |-> content]
TransportError == Response(FALSE, "", "")

BodiesFor(job) ==
    IF job.status = "completed"
    THEN {Response(TRUE, "completed", text) : text \in Contents}
    ELSE IF job.status = "failed"
    THEN {Response(TRUE, "failed", "")}
    ELSE {Response(TRUE, st, "") : st \in LiveStatuses}

PollResponses(text) ==
    {TransportError} \cup UNION {BodiesFor(JobOf(h)) : h \in JobsNamed(text)}

(***************************************************************************)
(* converter.check_status_and_retrieve and the value it returns:           *)
(* a string, or None.                                                      *)
(***************************************************************************)
None == [is_none |-> TRUE, text |-> ""]
Str(s) == [is_none |-> FALSE, text |-> s]

check_status_and_retrieve(resp) ==
    IF ~resp.ok THEN None
    ELSE IF resp.status = "completed" THEN Str(resp.content)
    ELSE Str(resp.status)

\* retrieve_chunk line 85: result in ["processing", "failed"]
is_processing_only(result) == ~result.is_none /\ result.text = "processing"
no_status_string(result) == FALSE
is_status_string(result) ==
    ~result.is_none /\ result.text \in {"processing", "failed"}

\* upload_chunk lines 32 and 37: the two checks that skip the upload.
skip_no_lock_check(md_exists, lock_exists) == md_exists /\ ~lock_exists
skip_lock_only(md_exists, lock_exists) == lock_exists
skip_nothing(md_exists, lock_exists) == FALSE
decide_output_first(md_exists, lock_exists) ==
    IF md_exists THEN "skip: markdown exists"
    ELSE IF lock_exists THEN "skip: lock exists"
    ELSE "upload"
upload_decision(md_exists, lock_exists) ==
    IF md_exists /\ ~lock_exists THEN "skip: markdown exists"
    ELSE IF lock_exists THEN "skip: lock exists"
    ELSE "upload"
upload_skips(md_exists, lock_exists) ==
    upload_decision(md_exists, lock_exists) # "upload"

\* main.py line 145: `if not args.retrieve_only:` guards the upload phase.
never_skips_upload_phase(retrieve_only) == FALSE
skips_upload_phase(retrieve_only) == retrieve_only

\* main.py lines 171-179: how a return value of retrieve_chunk is counted.
count_as(returned) ==
    IF returned = Str("processing") THEN "processing"
    ELSE IF returned = Str("failed") THEN "failed"
    ELSE IF returned = None THEN "failed"
    ELSE "successful"

(***************************************************************************)
(* The `python -m app` process (main.py): pc is the statement it is at.    *)
(*   i        index into files_to_convert of the chunk being handled       *)
(*   record_id  upload_chunk's local: the handle upload_file returned      *)
(*   result     retrieve_chunk's local: check_status_and_retrieve's value  *)
(*   results  per chunk, how main counted retrieve_chunk's return value    *)
(*   calls    the network calls of this run, in order, each with what the  *)
(*            service answered                                             *)
(*   prev_store  the state store the previous upload phase over this       *)
(*            document left, when nothing changed it since                 *)
(***************************************************************************)
IdleCli ==
    [pc |-> "idle", doc |-> "", retrieve_only |-> FALSE, caller |-> "",
     i |-> 0, record_id |-> 0, result |-> None, results |-> <<>>,
     calls |-> <<>>, prev_store |-> NoStore]

\* The daemon pass (daemon.main): pc is the function it is in, files the
\* input_files that function globbed and j its loop index; chunk_files and k
\* are the list and index of move_completed_files' loop; polled lists the
\* chunks the subprocesses of this pass have polled so far.
IdleDmn ==
    [pc |-> "idle", files |-> <<>>, j |-> 0, chunk_files |-> <<>>, k |-> 0,
     polled |-> <<>>]

CurrentChunk == files_to_convert(cli.doc)[cli.i]

\* One network call: requests.post in upload_file ("submit") or requests.get
\* in check_status_and_retrieve ("poll") for the i-th file, the handle sent
\* or received, and the answer.
Call(op, i, handle, status, content) ==
    [op |-> op, i |-> i, handle |-> handle, status |-> status,
     content |-> content]
SubmitAccepted(i, record_id) == Call("submit", i, str(record_id), "accepted", "")
SubmitFailed(i) == Call("submit", i, <<>>, "failed", "")
Polled(i, handle, resp) ==
    Call("poll", i, handle, IF resp.ok THEN resp.status ELSE "error",
         resp.content)

\* shutil.move(source, dest): what is left in the folder the file is moved
\* from.
copied_from(folder, name) == folder
moved_from(folder, name) == folder \ {name}

\* daemon.find_input_files
find_input_files == SelectSeq(DocOrder, LAMBDA d : d \in input)

\* daemon.has_lock_files: glob {base}_pages_*.pdf.lock in the output folder
has_lock_files(d) == \E c \in DOMAIN locks : c[1] = d

\* glob {base}_pages_*.pdf in the output folder, in plan order
chunk_files_of(d) ==
    SelectSeq(files_to_convert(d), LAMBDA c : c \in pdfs)

\* process_new_files lines 402-405: no chunk artifact of the document exists
\* in the output folder.
every_file_is_new(d) == TRUE
is_new_file(d) == chunk_files_of(d) = <<>>

\* daemon.is_conversion_finished without its lock loop (lines 132-135), and
\* without its output loop (lines 137-141).
finished_ignoring_locks(d) ==
    /\ chunk_files_of(d) # <<>>
    /\ \A c \in ChunksOf(d) : c \in pdfs => Exists(mds, c)
finished_ignoring_outputs(d) ==
    /\ chunk_files_of(d) # <<>>
    /\ \A c \in ChunksOf(d) : c \in pdfs => ~Exists(locks, c)

\* daemon.is_conversion_finished
is_conversion_finished(d) ==
    /\ chunk_files_of(d) # <<>>
    /\ \A c \in ChunksOf(d) : c \in pdfs => ~Exists(locks, c)
    /\ \A c \in ChunksOf(d) : c \in pdfs => Exists(mds, c)

\* The lifecycle variables in the specifications that do not run the
\* lifecycle, and the lock variables in those that start no daemon process.
LifeUnused ==
    /\ input = {} /\ pdfs = {} /\ locks = <<>> /\ mds = <<>>
    /\ concats = {} /\ done = {} /\ jobs = <<>>
    /\ cli = <<>> /\ dmn = <<>> /\ untouched = {}
LockUnused ==
    instances = <<>> /\ lock_file = 0 /\ inodes = 0 /\ flocks = {}

\* The state before any run: the documents docs are in the input folder, the
\* output folder is empty, the service has no job.
InitWith(docs) ==
    /\ file_size_mb = 0 /\ num_pages = 0 /\ chunks = <<>> /\ plan_pc = "unused"
    /\ input = docs
    /\ pdfs = {}
    /\ locks = NoFiles
    /\ mds = NoFiles
    /\ concats = {}
    /\ done = [src |-> {}, pdf |-> {}, md |-> {}, concat |-> {}]
    /\ jobs = <<>>
    /\ cli = IdleCli
    /\ dmn = IdleDmn
    /\ untouched = {}
    /\ LockUnused

Init == InitWith(Docs)

\* main.py lines 68-108: argument checks, analyze_pdf, calculate_chunks.
CliStart(d, retrieve_only, caller) ==
    /\ cli.pc = "idle"
    /\ d \in input
    /\ cli' = [IdleCli EXCEPT !.pc = "split", !.doc = d, !.caller = caller,
                              !.retrieve_only = retrieve_only, !.i = 1]

\* An operator runs the CLI on a document, in submit or retrieve-only mode.
UserRun(d, retrieve_only) ==
    /\ dmn.pc = "idle"
    /\ CliStart(d, retrieve_only, "user")
    /\ UNCHANGED <<plan_vars, lock_vars, fs_vars, jobs, dmn, untouched>>

\* main.py lines 128-142: materialize one chunk artifact (shutil.copy, or
\* one iteration of split_pdf's loop); after the last one the upload phase
\* begins, or the retrieval phase in retrieve-only mode.
CliSplit ==
    /\ cli.pc = "split"
    /\ pdfs' = pdfs \cup {CurrentChunk}
    /\ cli' = IF cli.i < NumFiles(cli.doc) THEN [cli EXCEPT !.i = @ + 1]
              ELSE IF skips_upload_phase(cli.retrieve_only)
                   THEN [cli EXCEPT !.pc = "retrieve", !.i = 1]
                   ELSE [cli EXCEPT !.pc = "upload", !.i = 1,
                             !.prev_store =
                                 IF cli.doc \in untouched
                                 THEN StoreOf(cli.doc) ELSE NoStore]
    /\ UNCHANGED <<plan_vars, lock_vars, input, locks, mds, concats, done, jobs, dmn,
                   untouched>>

\* The upload loop of main.py (lines 150-153) moves to the next file, or the
\* upload phase ends and the retrieval phase begins.
AfterUpload(calls, wrote) ==
    IF cli.i < NumFiles(cli.doc)
    THEN /\ cli' = [cli EXCEPT !.pc = "upload", !.i = @ + 1, !.record_id = 0,
                               !.calls = calls]
         /\ untouched' = IF wrote THEN untouched \ {cli.doc} ELSE untouched
    ELSE /\ cli' = [cli EXCEPT !.pc = "retrieve", !.i = 1, !.record_id = 0,
                               !.calls = calls]
         /\ untouched' = untouched \cup {cli.doc}

\* converter.upload_chunk lines 27-39: the chunk is skipped.
CliUploadSkip ==
    /\ cli.pc = "upload"
    /\ upload_skips(Exists(mds, CurrentChunk), Exists(locks, CurrentChunk))
    /\ AfterUpload(cli.calls, FALSE)
    /\ UNCHANGED <<plan_vars, lock_vars, fs_vars, jobs, dmn>>

\* upload_chunk lines 43-45, `if not record_id`: upload_file returned None
\* (record_id 0 here) and upload_chunk returns None without writing a lock.
always_record_id(record_id) == FALSE

no_record_id(record_id) == record_id = 0

\* upload_chunk lines 41-49 after upload_file returned record_id: give up,
\* or go on to write the lock.
AfterUploadFile(record_id, calls) ==
    IF no_record_id(record_id)
    THEN AfterUpload(calls, FALSE)
    ELSE /\ cli' = [cli EXCEPT !.pc = "open_lock", !.record_id = record_id,
                               !.calls = calls]
         /\ UNCHANGED untouched

\* upload_chunk line 41, upload_file: the service accepts the file and
\* returns a record_id.
CliUploadAccepted ==
    /\ cli.pc = "upload"
    /\ ~upload_skips(Exists(mds, CurrentChunk), Exists(locks, CurrentChunk))
    /\ jobs' = Append(jobs, NewJob(CurrentChunk, TRUE))
    /\ AfterUploadFile(HandleOf(Len(jobs) + 1),
                       Append(cli.calls,
                              SubmitAccepted(cli.i, HandleOf(Len(jobs) + 1))))
    /\ UNCHANGED <<plan_vars, lock_vars, fs_vars, dmn>>

\* upload_chunk lines 41-45: the service did not accept the file and
\* upload_file returned None; no lock is written.
CliUploadFailed ==
    /\ cli.pc = "upload"
    /\ ~upload_skips(Exists(mds, CurrentChunk), Exists(locks, CurrentChunk))
    /\ AfterUploadFile(0, Append(cli.calls, SubmitFailed(cli.i)))
    /\ UNCHANGED <<plan_vars, lock_vars, fs_vars, jobs, dmn>>

\* upload_file lines 124-141 and upload_chunk lines 43-45: the service
\* accepted the file, but requests.post or response.json() raised, or the
\* body carried no record_id; upload_file returned None, no lock is written.
CliUploadLost ==
    /\ cli.pc = "upload"
    /\ ~upload_skips(Exists(mds, CurrentChunk), Exists(locks, CurrentChunk))
    /\ Cardinality(Lost) < MaxLost
    /\ jobs' = Append(jobs, NewJob(CurrentChunk, FALSE))
    /\ AfterUploadFile(0, Append(cli.calls, SubmitFailed(cli.i)))
    /\ UNCHANGED <<plan_vars, lock_vars, fs_vars, dmn>>

\* upload_chunk line 48: open(lock_file_path, "w") creates the lock file,
\* empty.
CliOpenLock ==
    /\ cli.pc = "open_lock"
    /\ locks' = WriteFile(locks, CurrentChunk, <<>>)
    /\ cli' = [cli EXCEPT !.pc = "write_lock"]
    /\ untouched' = untouched \ {cli.doc}
    /\ UNCHANGED <<plan_vars, lock_vars, input, pdfs, mds, concats, done, jobs, dmn>>

\* upload_chunk lines 48-49: f.write(str(record_id)) and the file is closed.
CliWriteLock ==
    /\ cli.pc = "write_lock"
    /\ locks' = WriteFile(locks, CurrentChunk, str(cli.record_id))
    /\ AfterUpload(cli.calls, TRUE)
    /\ UNCHANGED <<plan_vars, lock_vars, input, pdfs, mds, concats, done, jobs, dmn>>

\* The retrieval loop of main.py (lines 167-179) counts the value
\* retrieve_chunk returned and moves to the next file, or to the summary.
AfterRetrieve(calls, returned) ==
    cli' = [cli EXCEPT !.pc = IF cli.i < NumFiles(cli.doc) THEN "retrieve"
                              ELSE "report",
                       !.i = IF cli.i < NumFiles(cli.doc) THEN @ + 1 ELSE @,
                       !.result = None,
                       !.results = Append(@, count_as(returned)),
                       !.calls = calls]

\* retrieve_chunk lines 62-71: no lock file, or an empty one: return None.
CliRetrieveNoLock ==
    /\ cli.pc = "retrieve"
    /\ \/ ~Exists(locks, CurrentChunk)
       \/ Exists(locks, CurrentChunk) /\ strip(locks[CurrentChunk]) = <<>>
    /\ AfterRetrieve(cli.calls, None)
    /\ UNCHANGED <<plan_vars, lock_vars, fs_vars, jobs, dmn, untouched>>

\* retrieve_chunk lines 66-91: read the handle, poll once, and return the
\* status or None; or go on to write the content (line 93).
CliPoll ==
    /\ cli.pc = "retrieve"
    /\ Exists(locks, CurrentChunk)
    /\ strip(locks[CurrentChunk]) # <<>>
    /\ \E resp \in PollResponses(strip(locks[CurrentChunk])) :
          LET result == check_status_and_retrieve(resp)
              calls == Append(cli.calls,
                              Polled(cli.i, strip(locks[CurrentChunk]), resp))
          IN  IF is_status_string(result) \/ result = None
              THEN AfterRetrieve(calls, result)
              ELSE cli' = [cli EXCEPT !.pc = "write_md", !.result = result,
                                      !.calls = calls]
    /\ dmn' = IF cli.caller = "daemon"
              THEN [dmn EXCEPT !.polled = Append(@, CurrentChunk)]
              ELSE dmn
    /\ UNCHANGED <<plan_vars, lock_vars, fs_vars, jobs, untouched>>

\* retrieve_chunk lines 96-97: open(output_md_path, "w") and
\* f.write(markdown_content).
output_not_written(files, name, text) == files
write_output(files, name, text) == WriteFile(files, name, text)

\* retrieve_chunk lines 96-97: write the content to the output file.
CliWriteMd ==
    /\ cli.pc = "write_md"
    /\ mds' = write_output(mds, CurrentChunk, cli.result.text)
    /\ cli' = [cli EXCEPT !.pc = "remove_lock"]
    /\ untouched' = untouched \ {cli.doc}
    /\ UNCHANGED <<plan_vars, lock_vars, input, pdfs, locks, concats, done, jobs, dmn>>

\* retrieve_chunk lines 101-104: remove the lock, return the output path.
CliRemoveLock ==
    /\ cli.pc = "remove_lock"
    /\ locks' = RemoveFile(locks, CurrentChunk)
    /\ AfterRetrieve(cli.calls, Str("output_md_path"))
    /\ untouched' = untouched \ {cli.doc}
    /\ UNCHANGED <<plan_vars, lock_vars, input, pdfs, mds, concats, done, jobs, dmn>>

\* main.py lines 182-193: the summary is printed and the process exits.
CliExit ==
    /\ cli.pc = "report"
    /\ cli' = IdleCli
    /\ UNCHANGED <<plan_vars, lock_vars, fs_vars, jobs, dmn, untouched>>

\* The service works on a job whose handle a lock file holds (the jobs no
\* lock names are never polled again, so their progress is not modelled).
ServiceStep ==
    \E k \in 1..Len(jobs) :
        /\ \E c \in DOMAIN locks : strip(locks[c]) = str(HandleOf(k))
        /\ jobs[k].status = "processing"
        /\ \E st \in {"completed", "failed"} :
              jobs' = [jobs EXCEPT ![k].status = st]
        /\ UNCHANGED <<plan_vars, lock_vars, fs_vars, cli, dmn, untouched>>

(***************************************************************************)
(* The daemon pass (daemon.main inside the DaemonLock block).  The daemon  *)
(* waits for each subprocess it starts (subprocess.run), so its steps are  *)
(* taken only while no CLI process is running.                             *)
(***************************************************************************)

\* daemon.main lines 438-448: glob the input folder; with no input files the
\* pass ends at once, otherwise process_pending_retrievals begins.
DaemonStart ==
    /\ dmn.pc = "idle"
    /\ cli.pc = "idle"
    /\ find_input_files # <<>>
    /\ dmn' = [IdleDmn EXCEPT !.pc = "retrievals",
                              !.files = find_input_files, !.j = 1]
    /\ UNCHANGED <<plan_vars, lock_vars, fs_vars, jobs, cli, untouched>>

\* process_pending_retrievals, one iteration: run_retrieval for a document
\* that has lock files.
DaemonRetrieval ==
    /\ dmn.pc = "retrievals"
    /\ cli.pc = "idle"
    /\ dmn.j <= Len(dmn.files)
    /\ dmn' = [dmn EXCEPT !.j = @ + 1]
    /\ IF has_lock_files(dmn.files[dmn.j])
       THEN CliStart(dmn.files[dmn.j], TRUE, "daemon")
       ELSE UNCHANGED cli
    /\ UNCHANGED <<plan_vars, lock_vars, fs_vars, jobs, untouched>>

\* process_finished_conversions, one iteration for a document that is not
\* finished.
DaemonNotFinished ==
    /\ dmn.pc = "finished"
    /\ cli.pc = "idle"
    /\ dmn.j <= Len(dmn.files)
    /\ ~is_conversion_finished(dmn.files[dmn.j])
    /\ dmn' = [dmn EXCEPT !.j = @ + 1]
    /\ UNCHANGED <<plan_vars, lock_vars, fs_vars, jobs, cli, untouched>>

\* process_finished_conversions lines 374-380: the document is finished;
\* run_concatenation (`python -m app --concat-mds`) writes the concatenated
\* file and returns True.
DaemonConcat ==
    /\ dmn.pc = "finished"
    /\ cli.pc = "idle"
    /\ dmn.j <= Len(dmn.files)
    /\ is_conversion_finished(dmn.files[dmn.j])
    /\ concats' = concats \cup {dmn.files[dmn.j]}
    /\ dmn' = [dmn EXCEPT !.pc = "move_src"]
    /\ UNCHANGED <<plan_vars, lock_vars, input, pdfs, locks, mds, done, jobs, cli,
                   untouched>>

\* move_completed_files lines 320-335: move the source document, then glob
\* the chunk artifacts.
DaemonMoveSrc ==
    /\ dmn.pc = "move_src"
    /\ input' = moved_from(input, dmn.files[dmn.j])
    /\ done' = [done EXCEPT !.src = @ \cup {dmn.files[dmn.j]}]
    /\ dmn' = [dmn EXCEPT !.pc = "move_chunks",
                          !.chunk_files = chunk_files_of(dmn.files[dmn.j]),
                          !.k = 1]
    /\ UNCHANGED <<plan_vars, lock_vars, pdfs, locks, mds, concats, jobs, cli, untouched>>

\* move_completed_files lines 337-349: move one chunk artifact and its
\* output file.
DaemonMoveChunk ==
    /\ dmn.pc = "move_chunks"
    /\ dmn.k <= Len(dmn.chunk_files)
    /\ LET c == dmn.chunk_files[dmn.k]
       IN  /\ pdfs' = pdfs \ {c}
           /\ mds' = RemoveFile(mds, c)
           /\ done' = [done EXCEPT
                         !.pdf = IF c \in pdfs THEN @ \cup {c} ELSE @,
                         !.md = IF Exists(mds, c) THEN @ \cup {c} ELSE @]
    /\ dmn' = [dmn EXCEPT !.k = @ + 1]
    /\ untouched' = untouched \ {dmn.files[dmn.j]}
    /\ UNCHANGED <<plan_vars, lock_vars, input, locks, concats, jobs, cli>>

\* move_completed_files lines 351-360: move the concatenated file; the
\* loop of process_finished_conversions goes on.
DaemonMoveConcat ==
    /\ dmn.pc = "move_chunks"
    /\ dmn.k > Len(dmn.chunk_files)
    /\ concats' = concats \ {dmn.files[dmn.j]}
    /\ done' = [done EXCEPT
                  !.concat = IF dmn.files[dmn.j] \in concats
                             THEN @ \cup {dmn.files[dmn.j]} ELSE @]
    /\ dmn' = [dmn EXCEPT !.pc = "finished", !.j = @ + 1,
                          !.chunk_files = <<>>, !.k = 0]
    /\ UNCHANGED <<plan_vars, lock_vars, input, pdfs, locks, mds, jobs, cli, untouched>>

\* process_new_files, one iteration: run_conversion for a document with no
\* chunk artifact in the output folder.
DaemonNew ==
    /\ dmn.pc = "new"
    /\ cli.pc = "idle"
    /\ dmn.j <= Len(dmn.files)
    /\ dmn' = [dmn EXCEPT !.j = @ + 1]
    /\ IF is_new_file(dmn.files[dmn.j])
       THEN CliStart(dmn.files[dmn.j], FALSE, "daemon")
       ELSE UNCHANGED cli
    /\ UNCHANGED <<plan_vars, lock_vars, fs_vars, jobs, untouched>>

\* daemon.main lines 448-456: the next function of the pass globs the input
\* folder again; after process_new_files the pass ends.
DaemonNextPhase ==
    /\ dmn.pc \in {"retrievals", "finished", "new"}
    /\ cli.pc = "idle"
    /\ dmn.j > Len(dmn.files)
    /\ dmn' = IF dmn.pc = "new" THEN IdleDmn
              ELSE [dmn EXCEPT
                      !.pc = IF dmn.pc = "retrievals" THEN "finished"
                             ELSE "new",
                      !.files = find_input_files, !.j = 1]
    /\ UNCHANGED <<plan_vars, lock_vars, fs_vars, jobs, cli, untouched>>

CliStep ==
    \/ CliSplit
    \/ CliUploadSkip
    \/ CliUploadAccepted
    \/ CliUploadFailed
    \/ CliOpenLock
    \/ CliWriteLock
    \/ CliRetrieveNoLock
    \/ CliPoll
    \/ CliWriteMd
    \/ CliRemoveLock
    \/ CliExit

DaemonStep ==
    \/ DaemonStart
    \/ DaemonRetrieval
    \/ DaemonNotFinished
    \/ DaemonConcat
    \/ DaemonMoveSrc
    \/ DaemonMoveChunk
    \/ DaemonMoveConcat
    \/ DaemonNew
    \/ DaemonNextPhase

Next ==
    \/ \E d \in Docs, retrieve_only \in BOOLEAN : UserRun(d, retrieve_only)
    \/ CliStep
    \/ DaemonStep
    \/ ServiceStep

Spec == Init /\ [][Next]_vars

(***************************************************************************)
(* Claims about complete runs (Spec).                                      *)
(***************************************************************************)
JobsFor(c) == {k \in 1..Len(jobs) : jobs[k].chunk = c}
FileOf(e) == files_to_convert(cli.doc)[e.i]
CallsOf(op) == {k \in 1..Len(cli.calls) : cli.calls[k].op = op}
InUploadPhase == cli.pc \in {"upload", "open_lock", "write_lock"}

\* The status of a document as its chunk artifacts, lock records and output
\* files give it.
Complete(c) == Exists(mds, c) /\ ~Exists(locks, c)
HasArtifact(d) == \E c \in ChunksOf(d) : c \in pdfs
Incomplete(d) == \E c \in ChunksOf(d) : c \in pdfs /\ ~Complete(c)
FullyComplete(d) == HasArtifact(d) /\ ~Incomplete(d)
DoneOf(d) ==
    <<d \in done.src, d \in done.concat,
      {c \in ChunksOf(d) : c \in done.pdf}, {c \in ChunksOf(d) : c \in done.md}>>

(***************************************************************************)
(* C3.  The upload phase of a submit-mode run has just ended, and the      *)
(* state store of the document was, when the run began, as the previous    *)
(* upload phase had left it (prev_store).                                  *)
(***************************************************************************)
AtUploadEnd == cli.pc = "retrieve" /\ cli.i = 1 /\ ~cli.retrieve_only
SecondPassEnded == AtUploadEnd /\ cli.prev_store.known

\* C3 as stated: the second submit pass leaves the state store as the first
\* left it and submits nothing.
C3_SecondPassSkipsAll ==
    SecondPassEnded =>
        /\ StoreOf(cli.doc) = cli.prev_store
        /\ CallsOf("submit") = {}

\* C3 amended: the second submit pass skips every chunk that had a lock or
\* an output after the first, leaving its records as they were, and submits
\* exactly the chunks that had neither (those whose submit failed in the
\* first pass); with nothing to retry the store is unchanged.
C3_SecondPassRetriesOnlyFailed ==
    SecondPassEnded =>
        LET prev == cli.prev_store
            had == (DOMAIN prev.lock) \cup (DOMAIN prev.md)
            submitted == {FileOf(cli.calls[k]) : k \in CallsOf("submit")}
        IN  /\ submitted = ChunksOf(cli.doc) \ had
            /\ \A k1, k2 \in CallsOf("submit") :
                  cli.calls[k1].i = cli.calls[k2].i => k1 = k2
            /\ \A c \in had :
                  /\ Exists(locks, c) <=> c \in DOMAIN prev.lock
                  /\ Exists(locks, c) => locks[c] = prev.lock[c]
                  /\ Exists(mds, c) <=> c \in DOMAIN prev.md
                  /\ Exists(mds, c) => mds[c] = prev.md[c]
            /\ submitted = {} => StoreOf(cli.doc) = prev

\* A second pass over the split document skipped the chunk in flight and
\* submitted the other one again.
C3_Witness ==
    /\ SecondPassEnded
    /\ DOMAIN cli.prev_store.lock # {}
    /\ CallsOf("submit") # {}

C8_CompletedIsFinalized ==
    \A k \in CallsOf("poll") :
        LET e == cli.calls[k]
        IN  (e.status = "completed" /\ Len(cli.results) >= e.i) =>
               /\ cli.results[e.i] = "successful"
               /\ Exists(mds, FileOf(e))
               /\ mds[FileOf(e)] = e.content
               /\ ~Exists(locks, FileOf(e))

(***************************************************************************)
(* C9: after a poll that returned processing, failed or an error, the lock *)
(* of the chunk is still there with the handle that was polled and the     *)
(* chunk has no output; a lock's text never changes while the lock exists, *)
(* a lock is removed only after a poll of its handle that returned none of *)
(* the three, and every network call for a chunk that has a lock is a poll *)
(* of the handle in the lock (never a submit).                             *)
(***************************************************************************)
NotFinal == {"processing", "failed", "error"}

C9_AfterPoll ==
    \A k \in CallsOf("poll") :
        LET e == cli.calls[k]
        IN  e.status \in NotFinal =>
               /\ Exists(locks, FileOf(e))
               /\ locks[FileOf(e)] = e.handle
               /\ ~Exists(mds, FileOf(e))
               /\ Len(cli.results) >= e.i =>
                     cli.results[e.i] \in {"processing", "failed"}

C9_Step ==
    /\ \A c \in (DOMAIN locks) \cap (DOMAIN locks') :
          locks[c] # <<>> => locks'[c] = locks[c]
    /\ \A c \in (DOMAIN locks) \ (DOMAIN locks') :
          /\ cli.calls # <<>>
          /\ LET e == cli.calls[Len(cli.calls)]
             IN  /\ e.op = "poll" /\ FileOf(e) = c /\ e.handle = locks[c]
                 /\ e.status \notin NotFinal
    /\ Len(cli'.calls) = Len(cli.calls) + 1 =>
          LET e == cli'.calls[Len(cli'.calls)]
          IN  Exists(locks, FileOf(e)) =>
                 e.op = "poll" /\ e.handle = strip(locks[FileOf(e)])

C9_LockKept == [](C9_AfterPoll) /\ [][C9_Step]_vars

\* A retrieve-only run (so the chunks it polls were polled by the run that
\* submitted them) has polled a handle again and was told failed.
C9_Witness ==
    /\ cli.pc = "report" /\ cli.retrieve_only
    /\ \E k \in CallsOf("poll") :
          /\ cli.calls[k].status = "failed"
          /\ Exists(locks, FileOf(cli.calls[k]))
          /\ locks[FileOf(cli.calls[k])] = cli.calls[k].handle

(***************************************************************************)
(* C10 as stated: in retrieve-only mode a chunk with no lock record is     *)
(* reported as skipped, not as failed, and no network call is made for it. *)
(***************************************************************************)
C10_NoLockIsSkipped ==
    cli.retrieve_only =>
        \A i \in 1..Len(cli.results) :
            LET c == files_to_convert(cli.doc)[i]
            IN  (~Exists(locks, c) /\ cli.results[i] # "successful") =>
                   /\ cli.results[i] # "failed"
                   /\ \A k \in CallsOf("poll") : cli.calls[k].i # i

(***************************************************************************)
(* C12: within one invocation of the CLI the external poll is called at    *)
(* most once per chunk, and within one daemon pass (all the subprocesses   *)
(* it starts) at most once per chunk: after its one poll of a chunk a run  *)
(* moves on to the next chunk, whatever the answer.                        *)
(***************************************************************************)
C12_AtMostOnePollPerChunk ==
    /\ \A k1, k2 \in CallsOf("poll") :
          cli.calls[k1].i = cli.calls[k2].i => k1 = k2
    /\ \A n1, n2 \in 1..Len(dmn.polled) :
          dmn.polled[n1] = dmn.polled[n2] => n1 = n2

\* One daemon pass has polled every chunk of both documents, and the
\* subprocess now running was told "processing" and went on.
C12_Witness ==
    /\ Len(dmn.polled) = Cardinality(AllChunks)
    /\ cli.caller = "daemon"
    /\ \E k \in CallsOf("poll") : cli.calls[k].status = "processing"
    /\ cli.pc = "report"

\* C16: once the daemon has moved a document to the done folder, nothing
\* of it is left in the input or output folders and is_conversion_finished
\* is False for it; and no later step moves it again or changes what the
\* done folder holds of it, concatenates it, starts a run on it, polls for
\* it or submits a chunk of it.
Moving(d) == dmn.pc = "move_chunks" /\ dmn.files[dmn.j] = d
Moved(d) == d \in done.src /\ ~Moving(d)
C16_MovedIsGone ==
    \A d \in Docs :
        Moved(d) => /\ d \notin input /\ d \notin concats
                    /\ \A c \in ChunksOf(d) :
                          c \notin pdfs /\ ~Exists(mds, c) /\ ~Exists(locks, c)
                    /\ ~is_conversion_finished(d)
                    /\ cli.doc # d
C16_Step ==
    \A d \in Docs :
        /\ d \in done.src => d \notin input'
        /\ Moved(d) =>
              /\ DoneOf(d)' = DoneOf(d)
              /\ d \notin concats'
              /\ cli'.doc # d
              /\ ~(dmn'.pc \in {"move_src", "move_chunks"}
                     /\ dmn'.files[dmn'.j] = d)
              /\ \A n \in 1..Len(dmn'.polled) :
                    dmn'.polled[n][1] = d => n <= Len(dmn.polled)
              /\ \A k \in 1..Len(jobs') : jobs'[k].chunk[1] = d => k <= Len(jobs)
C16_MovedOnce == [](C16_MovedIsGone) /\ [][C16_Step]_vars
C16_Witness ==
    /\ Moved("a") /\ "b" \in input
    /\ dmn.pc = "retrievals" /\ cli.caller = "daemon" /\ cli.doc = "b"
    /\ CallsOf("poll") # {}

\* C23 as stated: a written lock record is removed only in the step of
\* retrieve_chunk that follows a poll of its handle answered "completed" and
\* the writing of the output; no other step removes or rewrites it.
LastCall == cli.calls[Len(cli.calls)]
C23_LockChange(c) ==
    /\ Exists(locks, c) /\ locks[c] # <<>>
    /\ ~Exists(locks', c) \/ locks'[c] # locks[c]
C23_Step ==
    \A c \in AllChunks :
        C23_LockChange(c) =>
            /\ cli.pc = "remove_lock" /\ CurrentChunk = c
            /\ ~Exists(locks', c)
            /\ Exists(mds, c)
            /\ LastCall.op = "poll" /\ LastCall.i = cli.i
            /\ LastCall.handle = strip(locks[c])
            /\ LastCall.status = "completed"
C23_LockRemovedOnlyOnCompleted == [][C23_Step]_vars

\* C27: while the job a chunk's lock names is failed at the service (and
\* retrieve_chunk is not finalizing an answer it got before the job
\* failed), no step removes or changes the lock or submits the chunk again,
\* and the document is not finished for the daemon and is not moved.  Every
\* state after a poll answered "failed" is such a state.
FailedLocked(c) ==
    /\ Exists(locks, c)
    /\ \E k \in JobsFor(c) :
          jobs[k].status = "failed" /\ strip(locks[c]) = str(HandleOf(k))
    /\ ~(cli.pc \in {"write_md", "remove_lock"} /\ CurrentChunk = c)
C27_Reported ==
    \A k \in CallsOf("poll") :
        cli.calls[k].status = "failed" => FailedLocked(FileOf(cli.calls[k]))
C27_NotComplete ==
    \A c \in AllChunks :
        FailedLocked(c) => /\ ~is_conversion_finished(c[1])
                           /\ ~FullyComplete(c[1]) /\ Incomplete(c[1])
                           /\ c[1] \in input
C27_Step ==
    \A c \in AllChunks :
        FailedLocked(c) => /\ Exists(locks', c) /\ locks'[c] = locks[c]
                           /\ \A k \in 1..Len(jobs') :
                                 jobs'[k].chunk = c => k <= Len(jobs)
                           /\ c[1] \in input'
                           /\ c[1] \notin concats'
C27_FailedStaysSubmitted ==
    [](C27_Reported /\ C27_NotComplete) /\ [][C27_Step]_vars
C27_Witness ==
    /\ cli.pc = "report" /\ ~cli.retrieve_only
    /\ \E k \in CallsOf("poll") :
          /\ cli.calls[k].status = "failed"
          /\ FailedLocked(FileOf(cli.calls[k]))
          /\ \A n \in CallsOf("submit") : cli.calls[n].i # cli.calls[k].i

\* C29: the ranges of one plan, for every plan of the bounded inputs, get
\* pairwise distinct chunk file names, lock file paths and output paths, and
\* no lock path equals an output or chunk path; and a step of upload_chunk
\* or retrieve_chunk on one chunk leaves the lock and the output of every
\* other chunk as they were.
RecordPaths(name) == {name, lock_file_path(name), output_md_path(name)}
PlanNamedApart(plan) ==
    \A i, j \in 1..Len(plan) :
        LET ni == chunk_filename(Chars("b"), plan[i])
            nj == chunk_filename(Chars("b"), plan[j])
        IN  /\ Cardinality(RecordPaths(ni)) = 3
            /\ i # j => RecordPaths(ni) \cap RecordPaths(nj) = {}
AllPlansNamedApart ==
    \A arg \in PlanInputs :
        ~calculate_chunks_raises(arg[1], arg[2])
            => PlanNamedApart(calculate_chunks(arg[1], arg[2]))
OnChunk ==
    cli.pc \in {"upload", "open_lock", "write_lock", "retrieve", "write_md",
                "remove_lock"}
C29_Frame ==
    (OnChunk /\ cli' # cli) =>
        \A c \in AllChunks \ {CurrentChunk} :
            /\ Exists(locks, c) <=> Exists(locks', c)
            /\ Exists(locks, c) => locks'[c] = locks[c]
            /\ Exists(mds, c) <=> Exists(mds', c)
            /\ Exists(mds, c) => mds'[c] = mds[c]
C29_ChunksApart == [](AllPlansNamedApart) /\ [][C29_Frame]_vars
C29_Witness ==
    /\ cli.doc = "b" /\ cli.pc = "report"
    /\ Exists(mds, files_to_convert("b")[1])
    /\ ~Exists(locks, files_to_convert("b")[1])
    /\ ~Exists(mds, files_to_convert("b")[2])
    /\ Exists(locks, files_to_convert("b")[2])
    /\ Exists(locks, files_to_convert("a")[1])

\* C30: the submit calls of one run are made in ascending order of the
\* start pages of their chunks, and the chunk upload_chunk is working on
\* starts after every chunk already submitted in the run.
StartPage(c) == c[2]
C30_AscendingSubmits ==
    /\ \A k1, k2 \in CallsOf("submit") :
          k1 < k2 => StartPage(FileOf(cli.calls[k1]))
                        < StartPage(FileOf(cli.calls[k2]))
    /\ cli.pc = "upload" =>
          \A k \in CallsOf("submit") :
              StartPage(FileOf(cli.calls[k])) < StartPage(CurrentChunk)
C30_Witness ==
    /\ cli.pc = "retrieve" /\ cli.doc = "b"
    /\ Cardinality(CallsOf("submit")) = 2
    /\ cli.calls[1].status = "failed" /\ cli.calls[2].status = "accepted"

\* C33 as stated: an output file is written for a chunk only in a step that
\* follows a poll of its handle answered "completed", with the content of
\* that answer; after any other answer (processing, failed, an unknown
\* status, a transport error) no output is written and no lock removed.
C33_Step ==
    \A c \in AllChunks :
        /\ (Exists(mds', c) /\ (~Exists(mds, c) \/ mds'[c] # mds[c])) =>
              /\ cli.pc = "write_md" /\ CurrentChunk = c
              /\ LastCall.op = "poll" /\ LastCall.i = cli.i
              /\ LastCall.status = "completed"
              /\ mds'[c] = LastCall.content
        /\ (Exists(locks, c) /\ ~Exists(locks', c)) =>
              /\ LastCall.op = "poll" /\ LastCall.status = "completed"
C33_OutputOnlyOnCompleted == [][C33_Step]_vars

\* C36: the daemon starts a submit-mode run on a document only in
\* process_new_files and only when the output folder holds no chunk artifact
\* of it, and never on a document it has retrieved in the same pass; on a
\* document that has chunk artifacts it starts only retrieve-only runs, in
\* process_pending_retrievals and only when a lock of the document exists;
\* it concatenates only a document that is finished.
DaemonStarts(d, retrieve_only) ==
    /\ cli.pc = "idle" /\ cli'.pc # "idle"
    /\ cli'.caller = "daemon" /\ cli'.doc = d
    /\ cli'.retrieve_only = retrieve_only
RetrievedInPass(d) == \E n \in 1..Len(dmn.polled) : dmn.polled[n][1] = d
C36_Step ==
    \A d \in Docs :
        /\ DaemonStarts(d, FALSE) =>
              /\ dmn.pc = "new"
              /\ ~HasArtifact(d)
              /\ ~RetrievedInPass(d)
        /\ DaemonStarts(d, TRUE) =>
              /\ dmn.pc = "retrievals"
              /\ has_lock_files(d)
        /\ HasArtifact(d) => ~DaemonStarts(d, FALSE)
        /\ d \in concats' \ concats => is_conversion_finished(d)
C36_SubmitOnlyNewFiles == [][C36_Step]_vars
\* The daemon has started a submit-mode run on one document in a pass in
\* which it has retrieved the other, which has chunk artifacts.
C36_Witness ==
    /\ cli.caller = "daemon" /\ ~cli.retrieve_only /\ cli.pc = "split"
    /\ \E d \in Docs \ {cli.doc} : RetrievedInPass(d) /\ HasArtifact(d)

(***************************************************************************)
(* SpecLost: complete runs over the split document, with a service that    *)
(* may accept a file whose record_id never reaches the client.             *)
(***************************************************************************)
NextLost == Next \/ CliUploadLost

SpecLost == InitWith({"b"}) /\ [][NextLost]_vars

C11_NoSubmitState ==
    cli.retrieve_only =>
        /\ ~InUploadPhase
        /\ CallsOf("submit") = {}

C11_NoSubmitStep ==
    cli.retrieve_only => Len(jobs') = Len(jobs)

C11_RetrieveOnlyNeverSubmits ==
    [](C11_NoSubmitState) /\ [][C11_NoSubmitStep]_vars

\* A retrieve-only run has gone over both chunks of the split document,
\* one of them with neither lock nor output, the other polled.
C11_Witness ==
    /\ cli.retrieve_only /\ cli.pc = "report"
    /\ CallsOf("poll") # {}
    /\ \E c \in ChunksOf(cli.doc) : ~Exists(locks, c) /\ ~Exists(mds, c)

\* C13: a lock record exists for a chunk only after a submit for that chunk
\* was accepted and acknowledged: it holds that submission's handle, or is
\* still empty while upload_chunk is between open() and write() for it.  A
\* step in which a submit fails leaves every persisted file as it was and
\* does not lead to the writing of a lock.
C13_LockHasAcceptedSubmit ==
    \A c \in DOMAIN locks :
        \/ \E k \in JobsFor(c) : jobs[k].acked /\ locks[c] = str(HandleOf(k))
        \/ /\ locks[c] = <<>>
           /\ cli.pc = "write_lock" /\ CurrentChunk = c
           /\ \E k \in JobsFor(c) : jobs[k].acked /\ cli.record_id = HandleOf(k)

SubmitFails ==
    /\ Len(cli'.calls) = Len(cli.calls) + 1
    /\ cli'.calls[Len(cli'.calls)].op = "submit"
    /\ cli'.calls[Len(cli'.calls)].status = "failed"

C13_FailedSubmitStep ==
    SubmitFails => /\ fs_vars' = fs_vars
                   /\ cli'.pc \notin {"open_lock", "write_lock"}

C13_LockOnlyAfterSubmit ==
    [](C13_LockHasAcceptedSubmit) /\ [][C13_FailedSubmitStep]_vars

C13_Witness ==
    /\ cli.pc = "retrieve"
    /\ \E k1, k2 \in CallsOf("submit") :
          /\ cli.calls[k1].status = "failed"
          /\ ~Exists(locks, FileOf(cli.calls[k1]))
          /\ cli.calls[k2].status = "accepted"
          /\ Exists(locks, FileOf(cli.calls[k2]))
    /\ Lost # {}

(***************************************************************************)
(* SpecFault: runs over the split document in which retrieve_chunk may be  *)
(* interrupted after it has written the output file (line 97) and before   *)
(* it removes the lock file (line 101): the process is killed or os.remove *)
(* raises.  The process ends there; a daemon that started it goes on with  *)
(* its pass.                                                               *)
(***************************************************************************)
Interrupt ==
    /\ cli.pc = "remove_lock"
    /\ cli' = IdleCli
    /\ UNCHANGED <<plan_vars, lock_vars, fs_vars, jobs, dmn, untouched>>

NextFault == Next \/ Interrupt

SpecFault == InitWith({"b"}) /\ [][NextFault]_vars

AllOutputs(d) == \A c \in ChunksOf(d) : c \in pdfs /\ Exists(mds, c)
AtFinishedCheck ==
    dmn.pc = "finished" /\ cli.pc = "idle" /\ dmn.j <= Len(dmn.files)

(***************************************************************************)
(* C5 as stated: output presence takes precedence over lock presence; the  *)
(* daemon classifies a document whose every chunk has an output as         *)
(* finished, even if a chunk still has a lock record.  (It does not:       *)
(* is_conversion_finished returns False at the first lock it finds, lines  *)
(* 132-135, before it looks at any output.)                                *)
(***************************************************************************)
C5_OutputWins ==
    (AtFinishedCheck /\ AllOutputs(dmn.files[dmn.j])) =>
        is_conversion_finished(dmn.files[dmn.j])

\* C14: the daemon concatenates a document, and begins to move it, only in
\* a state where the document has a chunk artifact and each of its chunk
\* artifacts has an output file and no lock record; every artifact it moves
\* is complete; and no step taken while some chunk artifact of a document
\* is incomplete concatenates the document or moves any of its files.
C14_OnlyWhenComplete ==
    \A d \in Docs :
        /\ d \in concats => ~Incomplete(d)
        /\ dmn.pc \in {"move_src", "move_chunks"} /\ dmn.files[dmn.j] = d
              => ~Incomplete(d)
C14_Step ==
    \A d \in Docs :
        /\ d \in concats' \ concats => FullyComplete(d)
        /\ d \in input \ input' => FullyComplete(d)
        /\ \A c \in ChunksOf(d) : c \in pdfs \ pdfs' => Complete(c)
        /\ Incomplete(d) =>
              /\ d \in input <=> d \in input'
              /\ d \in concats <=> d \in concats'
              /\ \A c \in ChunksOf(d) : c \in pdfs => c \in pdfs'
              /\ DoneOf(d)' = DoneOf(d)
C14_FinalizeOnlyComplete ==
    [](C14_OnlyWhenComplete) /\ [][C14_Step]_vars
C14_Witness ==
    /\ "b" \in done.src /\ "b" \in done.concat
    /\ \A c \in ChunksOf("b") : c \in done.pdf /\ c \in done.md

\* C15: with the status of a document being NotStarted when none of its
\* chunk artifacts exists, InProgress when some chunk artifact has a lock
\* record or lacks an output, and FullyComplete otherwise,
\* is_conversion_finished is True exactly for a FullyComplete document.
Status(d) ==
    IF \A c \in ChunksOf(d) : c \notin pdfs THEN "NotStarted"
    ELSE IF \E c \in ChunksOf(d) :
               c \in pdfs /\ (Exists(locks, c) \/ ~Exists(mds, c))
         THEN "InProgress"
         ELSE "FullyComplete"
C15_FinishedIffFullyComplete ==
    \A d \in Docs : is_conversion_finished(d) <=> Status(d) = "FullyComplete"
C15_Witness ==
    /\ AtFinishedCheck /\ dmn.files[dmn.j] = "b"
    /\ \E c \in ChunksOf("b") : Exists(locks, c) /\ Exists(mds, c)
    /\ \E c \in ChunksOf("b") : ~Exists(locks, c) /\ Exists(mds, c)
    /\ Status("b") = "InProgress" /\ Status("a") = "NotStarted"

\* C24: upload_chunk, from the state of the chunk before the call: an
\* output and no lock, skip as already converted; otherwise a lock, skip as
\* in flight; otherwise submit.  The step taken by upload_chunk makes a
\* submit call exactly when the chunk has neither a lock nor an output.
C24_Decision ==
    cli.pc = "upload" =>
        LET md == Exists(mds, CurrentChunk)
            lock == Exists(locks, CurrentChunk)
        IN  /\ (md /\ ~lock) =>
                  upload_decision(md, lock) = "skip: markdown exists"
            /\ (~(md /\ ~lock) /\ lock) =>
                  upload_decision(md, lock) = "skip: lock exists"
            /\ (~(md /\ ~lock) /\ ~lock) => upload_decision(md, lock) = "upload"
C24_Step ==
    (cli.pc = "upload" /\ cli' # cli) =>
        ((/\ Len(cli'.calls) = Len(cli.calls) + 1
          /\ cli'.calls[Len(cli'.calls)].op = "submit"
          /\ cli'.calls[Len(cli'.calls)].i = cli.i)
         <=> (~Exists(locks, CurrentChunk) /\ ~Exists(mds, CurrentChunk)))
C24_SubmitIffNeither == [](C24_Decision) /\ [][C24_Step]_vars
C24_Witness ==
    /\ cli.pc = "retrieve" /\ ~cli.retrieve_only /\ cli.doc = "b"
    /\ Exists(mds, files_to_convert("b")[1])
    /\ Exists(locks, files_to_convert("b")[1])
    /\ Exists(locks, files_to_convert("b")[2])
    /\ \A k \in 1..Len(cli.calls) :
          cli.calls[k].op = "submit" /\ cli.calls[k].i = 2
    /\ Len(cli.calls) = 1

(***************************************************************************)
(* SpecStore: runs over the split document in which a file operation on    *)
(* the state store raises OSError: open() or write() of the lock file in   *)
(* upload_chunk (lines 48-49), open() or write() of the output file        *)
(* (lines 96-97) or os.remove of the lock (line 101) in retrieve_chunk.    *)
(* Neither function nor the loops of main (lines 149-151, 166-168) catch   *)
(* it: the process ends with a traceback.  A submission whose lock file    *)
(* could not be created is submitted again by a later run; the number of   *)
(* jobs at the service is kept within MaxLost of the number of chunks.     *)
(***************************************************************************)
StoreError ==
    /\ cli.pc \in {"open_lock", "write_lock", "write_md", "remove_lock"}
    /\ cli.pc = "open_lock" => Len(jobs) < NumFiles(cli.doc) + MaxLost
    /\ cli' = IdleCli
    /\ UNCHANGED <<plan_vars, lock_vars, fs_vars, jobs, dmn, untouched>>

NextStore == Next \/ StoreError

SpecStore == InitWith({"b"}) /\ [][NextStore]_vars

\* C22 as stated: whatever fails for one chunk (the submit, the poll, or a
\* read or write of the state store), the run goes on to the other chunks:
\* a run ends only after retrieve_chunk was called for every chunk of the
\* document.
RunEnds == cli.pc # "idle" /\ cli'.pc = "idle"
C22_RunEndsAfterEveryChunk ==
    RunEnds => cli.pc = "report" /\ Len(cli.results) = NumFiles(cli.doc)
C22_FailureIsolated == [][C22_RunEndsAfterEveryChunk]_vars

(***************************************************************************)
(* SpecKill: runs over the split document in which the `python -m app`     *)
(* process may be killed between any two of its steps (a signal, or the    *)
(* timeout of the daemon's subprocess.run, daemon.py 166-194).  A daemon   *)
(* that started the process goes on with its pass.  A submission whose     *)
(* lock file was not yet created is submitted again by a later run; the    *)
(* number of jobs at the service is kept within MaxLost of the number of   *)
(* chunks.                                                                 *)
(***************************************************************************)
Kill ==
    /\ cli.pc # "idle"
    /\ cli.pc = "open_lock" => Len(jobs) < NumFiles(cli.doc) + MaxLost
    /\ cli' = IdleCli
    /\ UNCHANGED <<plan_vars, lock_vars, fs_vars, jobs, dmn, untouched>>

NextKill == Next \/ Kill

SpecKill == InitWith({"b"}) /\ [][NextKill]_vars

\* C25: retrieve_chunk writes the output before it removes the lock, so a
\* completed result is never lost, also when the process is killed at any
\* step: after a poll answered "completed" the chunk has its lock until the
\* content of that answer is in its output file; a lock is removed only
\* when the output exists; an output leaves the output folder only into the
\* done folder, and stays there.
C25_OutputBeforeUnlock ==
    (cli.pc \in {"write_md", "remove_lock"} /\ LastCall.status = "completed")
        => /\ Exists(locks, CurrentChunk)
           /\ cli.pc = "remove_lock" =>
                 /\ Exists(mds, CurrentChunk)
                 /\ mds[CurrentChunk] = LastCall.content
C25_Step ==
    \A c \in AllChunks :
        /\ (Exists(locks, c) /\ ~Exists(locks', c)) => Exists(mds', c)
        /\ (Exists(mds, c) /\ ~Exists(mds', c)) => c \in done'.md
        /\ c \in done.md => c \in done'.md
C25_CompletedNeverLost == [](C25_OutputBeforeUnlock) /\ [][C25_Step]_vars
C25_Witness ==
    /\ cli.pc = "idle" /\ dmn.pc = "idle"
    /\ \E c \in ChunksOf("b") :
          /\ Exists(mds, c) /\ mds[c] = "# Success" /\ Exists(locks, c)
    /\ \E c \in ChunksOf("b") :
          /\ Exists(mds, c) /\ mds[c] = "# Success" /\ ~Exists(locks, c)

\* C26 as stated: also when the process is killed at any step, every chunk
\* for which the service accepted a submission has a lock record or an
\* output file (in the output folder, or moved to the done folder); the
\* state inside upload_chunk between the return of upload_file and the
\* creation of the lock file is not counted.
C26_AcceptedHasLock ==
    cli.pc # "open_lock" =>
        \A k \in 1..Len(jobs) :
            \/ Exists(locks, jobs[k].chunk)
            \/ Exists(mds, jobs[k].chunk)
            \/ jobs[k].chunk \in done.md

\* C35: whenever the daemon finds a document finished, also after runs that
\* were killed while splitting or uploading, every chunk of the document's
\* plan has its artifact and its output in the output folder: the page
\* ranges of the outputs present cover 1..pageCount, none is missing.
OutputsOf(d) == {c \in ChunksOf(d) : Exists(mds, c)}
C35_FinishedHasFullPlan ==
    \A d \in Docs :
        (AtFinishedCheck /\ dmn.files[dmn.j] = d /\ is_conversion_finished(d)) =>
            /\ OutputsOf(d) = ChunksOf(d)
            /\ \A c \in ChunksOf(d) : c \in pdfs
            /\ \A page \in 1..DocPages(d) :
                  \E c \in OutputsOf(d) : c[2] <= page /\ page <= c[3]
\* The daemon finds b finished although a run on it was killed between an
\* accepted upload and its lock write (the chunk was uploaded again).
C35_Witness ==
    /\ AtFinishedCheck /\ dmn.files[dmn.j] = "b"
    /\ is_conversion_finished("b")
    /\ Len(jobs) > NumFiles("b")

(***************************************************************************)
(* SpecDaemon: the daemon started again and again (cron) with the split    *)
(* document in the input folder, and no operator.  Every pass and every    *)
(* subprocess it starts runs to its end, and the service accepts an upload *)
(* that is attempted again and again.                                      *)
(***************************************************************************)

\* The steps of the subprocesses a daemon starts.  upload_chunk never takes
\* a skip branch there: process_new_files starts run_conversion only for a
\* document that has no chunk artifact, hence no lock and no output.
DaemonCliStep ==
    \/ CliSplit
    \/ CliUploadAccepted
    \/ CliUploadFailed
    \/ CliOpenLock
    \/ CliWriteLock
    \/ CliRetrieveNoLock
    \/ CliPoll
    \/ CliWriteMd
    \/ CliRemoveLock
    \/ CliExit

NextDaemon == DaemonCliStep \/ DaemonStep \/ ServiceStep

SpecDaemon ==
    /\ InitWith({"b"})
    /\ [][NextDaemon]_vars
    /\ WF_vars(DaemonStep)
    /\ WF_vars(DaemonCliStep)
    /\ SF_vars(CliUploadAccepted)

(***************************************************************************)
(* C6 as stated: under repeated daemon passes with a service that          *)
(* eventually accepts uploads, every chunk of every document in the input  *)
(* folder eventually gets a lock record.                                   *)
(***************************************************************************)
C6_EveryChunkSubmitted ==
    \A c \in ChunksOf("b") : <>Exists(locks, c)

(***************************************************************************)
(* SpecService: SpecDaemon with a service that finishes the jobs it holds   *)
(* and answers "completed" to a poll that is made again and again.         *)
(***************************************************************************)

\* A poll whose answer is "completed" (check_status_and_retrieve lines
\* 165-170 are reached).
CliPollCompleted ==
    /\ CliPoll
    /\ cli'.calls[Len(cli'.calls)].status = "completed"

SpecService ==
    /\ InitWith({"b"})
    /\ [][NextDaemon]_vars
    /\ WF_vars(DaemonStep)
    /\ WF_vars(DaemonCliStep)
    /\ WF_vars(ServiceStep)
    /\ SF_vars(CliPollCompleted)

AllAccepted ==
    \A c \in ChunksOf("b") :
        \E k \in 1..Len(jobs) : jobs[k].chunk = c /\ jobs[k].acked
JobFailed == \E k \in 1..Len(jobs) : jobs[k].status = "failed"
Delivered ==
    /\ "b" \in done.src /\ "b" \in done.concat
    /\ \A c \in ChunksOf("b") : c \in done.pdf /\ c \in done.md

(***************************************************************************)
(* C34 as stated: when every upload of the document's chunks was accepted  *)
(* and the service reports completed for every handle, repeated daemon     *)
(* passes eventually concatenate the document and move it to the done area *)
(* with all of its chunk artifacts and outputs.                            *)
(***************************************************************************)
C34_CompletedIsDelivered ==
    ([]~JobFailed) => (AllAccepted ~> Delivered)

(***************************************************************************)
(* SpecMove: Spec over one document, where a shutil.move of                *)
(* move_completed_files may raise (done folder missing or read-only, disk  *)
(* full, a file held open).  Its `except Exception` logs and returns False *)
(* and the loop of process_finished_conversions goes on.                   *)
(***************************************************************************)

\* move_completed_files line 321 raises: nothing has been moved.
DaemonMoveSrcError ==
    /\ dmn.pc = "move_src"
    /\ dmn' = [dmn EXCEPT !.pc = "finished", !.j = @ + 1]
    /\ UNCHANGED <<plan_vars, lock_vars, fs_vars, jobs, cli, untouched>>

\* A shutil.move of lines 340-357 raises: the source document and the files
\* moved before it stay in the done folder, the rest stays where it is.
DaemonMoveError ==
    /\ dmn.pc = "move_chunks"
    /\ dmn' = [dmn EXCEPT !.pc = "finished", !.j = @ + 1,
                          !.chunk_files = <<>>, !.k = 0]
    /\ UNCHANGED <<plan_vars, lock_vars, fs_vars, jobs, cli, untouched>>

NextMove == Next \/ DaemonMoveSrcError \/ DaemonMoveError

SpecMove == InitWith({"b"}) /\ [][NextMove]_vars

LeftInOutput(d) ==
    \/ \E c \in ChunksOf(d) : c \in pdfs \/ Exists(mds, c)
    \/ d \in concats

(***************************************************************************)
(* C37 as stated: when move_completed_files fails partway the document     *)
(* stays detectable and the move is retried; once the daemon is out of     *)
(* move_completed_files, no document has left the input folder while chunk *)
(* artifacts, outputs or the concatenated file of it remain in the output  *)
(* folder.                                                                 *)
(***************************************************************************)
C37_NoStrandedOutputs ==
    \A d \in Docs :
        (dmn.pc \notin {"move_src", "move_chunks"} /\ d \notin input) =>
            ~LeftInOutput(d)

(***************************************************************************)
(* SpecConvert: `python -m app --convert-only <file>` runs (main.py lines  *)
(* 85-93), one at a time, on the documents of the input folder, and the    *)
(* service.  convert_file works on the document itself: its lock and       *)
(* output are {base}.pdf.lock and {base}.md.  At pc "convert_report"       *)
(* cli.result is the value convert_file returned, and at "convert_done"    *)
(* cli.results holds the line main printed.                                *)
(***************************************************************************)

\* The file_path convert_file is given: the input document.
InputFile(d) == <<d>>

\* main.py line 88, `if result:` for a string or None.
truthy(result) == ~result.is_none /\ result.text # ""

\* main.py lines 88-91
convert_only_message(result) ==
    IF truthy(result) THEN "Conversion successful!" ELSE "Conversion failed."

\* main.py lines 73-87: the input file exists; convert_file is called.
ConvertStart(d) ==
    /\ cli.pc = "idle"
    /\ d \in input
    /\ cli' = [IdleCli EXCEPT !.pc = "convert_upload", !.doc = d,
                              !.caller = "user", !.i = 1]
    /\ UNCHANGED <<plan_vars, lock_vars, fs_vars, jobs, dmn, untouched>>

\* upload_chunk lines 27-39 under convert_file: the upload is skipped.
ConvertUploadSkip ==
    /\ cli.pc = "convert_upload"
    /\ upload_skips(Exists(mds, InputFile(cli.doc)),
                    Exists(locks, InputFile(cli.doc)))
    /\ cli' = [cli EXCEPT !.pc = "convert_retrieve"]
    /\ UNCHANGED <<plan_vars, lock_vars, fs_vars, jobs, dmn, untouched>>

\* upload_chunk lines 41-46: upload_file returned a record_id.
ConvertUploadAccepted ==
    /\ cli.pc = "convert_upload"
    /\ ~upload_skips(Exists(mds, InputFile(cli.doc)),
                     Exists(locks, InputFile(cli.doc)))
    /\ jobs' = Append(jobs, NewJob(InputFile(cli.doc), TRUE))
    /\ cli' = [cli EXCEPT
                 !.pc = IF no_record_id(HandleOf(Len(jobs) + 1))
                        THEN "convert_retrieve" ELSE "convert_open_lock",
                 !.record_id = HandleOf(Len(jobs) + 1),
                 !.calls = Append(@, SubmitAccepted(1, HandleOf(Len(jobs) + 1)))]
    /\ UNCHANGED <<plan_vars, lock_vars, fs_vars, dmn, untouched>>

\* upload_chunk lines 41-45: upload_file returned None; upload_chunk
\* returns and convert_file goes on to retrieve_chunk.
ConvertUploadFailed ==
    /\ cli.pc = "convert_upload"
    /\ ~upload_skips(Exists(mds, InputFile(cli.doc)),
                     Exists(locks, InputFile(cli.doc)))
    /\ cli' = [cli EXCEPT !.pc = "convert_retrieve",
                          !.calls = Append(@, SubmitFailed(1))]
    /\ UNCHANGED <<plan_vars, lock_vars, fs_vars, jobs, dmn, untouched>>

\* upload_chunk line 48: open(lock_file_path, "w").
ConvertOpenLock ==
    /\ cli.pc = "convert_open_lock"
    /\ locks' = WriteFile(locks, InputFile(cli.doc), <<>>)
    /\ cli' = [cli EXCEPT !.pc = "convert_write_lock"]
    /\ UNCHANGED <<plan_vars, lock_vars, input, pdfs, mds, concats, done, jobs,
                   dmn, untouched>>

\* upload_chunk lines 48-49: f.write(str(record_id)).
ConvertWriteLock ==
    /\ cli.pc = "convert_write_lock"
    /\ locks' = WriteFile(locks, InputFile(cli.doc), str(cli.record_id))
    /\ cli' = [cli EXCEPT !.pc = "convert_retrieve", !.record_id = 0]
    /\ UNCHANGED <<plan_vars, lock_vars, input, pdfs, mds, concats, done, jobs,
                   dmn, untouched>>

\* retrieve_chunk lines 62-71 under convert_file: no lock, or an empty one;
\* convert_file returns None.
ConvertRetrieveNoLock ==
    /\ cli.pc = "convert_retrieve"
    /\ \/ ~Exists(locks, InputFile(cli.doc))
       \/ /\ Exists(locks, InputFile(cli.doc))
          /\ strip(locks[InputFile(cli.doc)]) = <<>>
    /\ cli' = [cli EXCEPT !.pc = "convert_report", !.result = None]
    /\ UNCHANGED <<plan_vars, lock_vars, fs_vars, jobs, dmn, untouched>>

\* retrieve_chunk lines 66-91 under convert_file: one poll; convert_file
\* returns the status string or None, or retrieve_chunk goes on to write.
ConvertPoll ==
    /\ cli.pc = "convert_retrieve"
    /\ Exists(locks, InputFile(cli.doc))
    /\ strip(locks[InputFile(cli.doc)]) # <<>>
    /\ \E resp \in PollResponses(strip(locks[InputFile(cli.doc)])) :
          cli' = [cli EXCEPT
                    !.pc = IF \/ is_status_string(check_status_and_retrieve(resp))
                              \/ check_status_and_retrieve(resp) = None
                           THEN "convert_report" ELSE "convert_write_md",
                    !.result = check_status_and_retrieve(resp),
                    !.calls = Append(@, Polled(1, strip(locks[InputFile(cli.doc)]),
                                               resp))]
    /\ UNCHANGED <<plan_vars, lock_vars, fs_vars, jobs, dmn, untouched>>

\* retrieve_chunk lines 96-97 under convert_file.
ConvertWriteMd ==
    /\ cli.pc = "convert_write_md"
    /\ mds' = write_output(mds, InputFile(cli.doc), cli.result.text)
    /\ cli' = [cli EXCEPT !.pc = "convert_remove_lock"]
    /\ UNCHANGED <<plan_vars, lock_vars, input, pdfs, locks, concats, done, jobs,
                   dmn, untouched>>

\* retrieve_chunk lines 101-104 under convert_file: the lock is removed and
\* the output path returned.
ConvertRemoveLock ==
    /\ cli.pc = "convert_remove_lock"
    /\ locks' = RemoveFile(locks, InputFile(cli.doc))
    /\ cli' = [cli EXCEPT !.pc = "convert_report",
                          !.result = Str("output_md_path")]
    /\ UNCHANGED <<plan_vars, lock_vars, input, pdfs, mds, concats, done, jobs,
                   dmn, untouched>>

\* main.py lines 88-91: the outcome is printed.
ConvertReport ==
    /\ cli.pc = "convert_report"
    /\ cli' = [cli EXCEPT !.pc = "convert_done",
                          !.results = <<convert_only_message(cli.result)>>]
    /\ UNCHANGED <<plan_vars, lock_vars, fs_vars, jobs, dmn, untouched>>

\* main.py line 92: return.
ConvertExit ==
    /\ cli.pc = "convert_done"
    /\ cli' = IdleCli
    /\ UNCHANGED <<plan_vars, lock_vars, fs_vars, jobs, dmn, untouched>>

NextConvert ==
    \/ \E d \in Docs : ConvertStart(d)
    \/ ConvertUploadSkip
    \/ ConvertUploadAccepted
    \/ ConvertUploadFailed
    \/ ConvertOpenLock
    \/ ConvertWriteLock
    \/ ConvertRetrieveNoLock
    \/ ConvertPoll
    \/ ConvertWriteMd
    \/ ConvertRemoveLock
    \/ ConvertReport
    \/ ConvertExit
    \/ ServiceStep

SpecConvert == Init /\ [][NextConvert]_vars

ConvertLastCall == cli.calls[Len(cli.calls)]

(***************************************************************************)
(* C38 as stated: a convert-only run reports the conversion as successful  *)
(* only if it wrote the output file and removed the lock; when its poll    *)
(* answered processing or failed, or its upload failed, it reports the     *)
(* conversion as not successful.                                           *)
(***************************************************************************)
C38_SuccessOnlyWhenWritten ==
    cli.pc = "convert_done" =>
        /\ cli.results = <<"Conversion successful!">> =>
              /\ cli.result = Str("output_md_path")
              /\ Exists(mds, InputFile(cli.doc))
              /\ ~Exists(locks, InputFile(cli.doc))
        /\ (cli.calls # <<>> /\ ConvertLastCall.status \in {"processing", "failed"})
              => cli.results = <<"Conversion failed.">>
        /\ (\E k \in 1..Len(cli.calls) : cli.calls[k] = SubmitFailed(1))
              => cli.results = <<"Conversion failed.">>

(***************************************************************************)
(* SpecLock: daemon processes started at arbitrary times, each running     *)
(* `with DaemonLock(LOCK_FILE): <pass>` once.  The pass itself is one      *)
(* state here ("pass"); the steps are the system calls of __enter__ and    *)
(* __exit__, which the kernel interleaves freely between processes.        *)
(***************************************************************************)
NumInstances == 3
Instances == 1..NumInstances

InitLock ==
    /\ file_size_mb = 0 /\ num_pages = 0 /\ chunks = <<>> /\ plan_pc = "unused"
    /\ LifeUnused
    /\ instances = [p \in Instances |-> [pc |-> "start", lock_fd |-> 0]]
    /\ lock_file = 0
    /\ inodes = 0
    /\ flocks = {}

\* __enter__ line 36: open(self.lock_file, 'w') opens the file the path
\* names, creating it when the path is absent.
LockOpen(p) ==
    /\ instances[p].pc = "start"
    /\ IF lock_file = 0
       THEN /\ inodes' = inodes + 1
            /\ lock_file' = inodes + 1
            /\ instances' = [instances EXCEPT ![p] =
                                [pc |-> "opened", lock_fd |-> inodes + 1]]
       ELSE /\ instances' = [instances EXCEPT ![p] =
                                [pc |-> "opened", lock_fd |-> lock_file]]
            /\ UNCHANGED <<lock_file, inodes>>
    /\ UNCHANGED <<plan_vars, life_vars, flocks>>

\* __enter__ lines 37-40: flock(LOCK_EX | LOCK_NB) succeeds, the pid is
\* written, and the body of the with block (the pass) begins.
LockAcquire(p) ==
    /\ instances[p].pc = "opened"
    /\ instances[p].lock_fd \notin flocks
    /\ flocks' = flocks \cup {instances[p].lock_fd}
    /\ instances' = [instances EXCEPT ![p].pc = "pass"]
    /\ UNCHANGED <<plan_vars, life_vars, lock_file, inodes>>

\* __enter__ lines 41-43: flock raises IOError; sys.exit(0).  __exit__ is
\* not run; the descriptor is closed as the process ends.
LockRefused(p) ==
    /\ instances[p].pc = "opened"
    /\ instances[p].lock_fd \in flocks
    /\ instances' = [instances EXCEPT ![p] = [pc |-> "exited", lock_fd |-> 0]]
    /\ UNCHANGED <<plan_vars, life_vars, lock_file, inodes, flocks>>

\* __exit__ line 47: the pass is over; flock(LOCK_UN).
LockRelease(p) ==
    /\ instances[p].pc = "pass"
    /\ flocks' = flocks \ {instances[p].lock_fd}
    /\ instances' = [instances EXCEPT ![p].pc = "unlocked"]
    /\ UNCHANGED <<plan_vars, life_vars, lock_file, inodes>>

\* __exit__ line 48: self.lock_fd.close()
LockClose(p) ==
    /\ instances[p].pc = "unlocked"
    /\ instances' = [instances EXCEPT ![p] = [pc |-> "closed", lock_fd |-> 0]]
    /\ UNCHANGED <<plan_vars, life_vars, lock_file, inodes, flocks>>

\* __exit__ lines 49-52: os.remove(self.lock_file) unlinks whatever file
\* the path names now; OSError (no such file) is ignored.
LockRemove(p) ==
    /\ instances[p].pc = "closed"
    /\ lock_file' = 0
    /\ instances' = [instances EXCEPT ![p].pc = "exited"]
    /\ UNCHANGED <<plan_vars, life_vars, inodes, flocks>>

NextLock ==
    \E p \in Instances :
        \/ LockOpen(p)
        \/ LockAcquire(p)
        \/ LockRefused(p)
        \/ LockRelease(p)
        \/ LockClose(p)
        \/ LockRemove(p)

SpecLock == InitLock /\ [][NextLock]_vars

InPass == {p \in Instances : instances[p].pc = "pass"}

(***************************************************************************)
(* C7 as stated: under every interleaving of the acquire and release steps *)
(* at most one instance is inside the DaemonLock block, and an instance    *)
(* whose flock was refused ends without running the pass.                  *)
(***************************************************************************)
C7_MutualExclusion ==
    /\ Cardinality(InPass) <= 1
    /\ \A p \in Instances :
          instances[p].pc = "pass" => instances[p].lock_fd \in flocks

(***************************************************************************)
(* SpecHandle: the handle of one chunk from upload_file's return value to  *)
(* the poll of a later run.  The service returns record_id as a JSON       *)
(* number or as a JSON string; upload_chunk writes str(record_id) to the   *)
(* lock file (lines 43-49) and retrieve_chunk polls f.read().strip()       *)
(* (lines 66-82).  cli is [pc, record_id, polled] here.                    *)
(***************************************************************************)
MaxRecordId == 120
MaxHandleLen == 3
HandleChars == {"7", "a", " ", "\n"}

JsonNumber(n) == [is_str |-> FALSE, n |-> n, s |-> <<>>]
JsonString(s) == [is_str |-> TRUE, n |-> 0, s |-> s]
RecordIds ==
    {JsonNumber(n) : n \in 0..MaxRecordId}
        \cup {JsonString(s) : s \in UNION {[1..k -> HandleChars] : k \in 0..MaxHandleLen}}

\* str(record_id): the decimal digits of a number, a string as it is.
py_str(record_id) == IF record_id.is_str THEN record_id.s ELSE str(record_id.n)

\* `not record_id` for a number or a string
falsy(record_id) ==
    IF record_id.is_str THEN record_id.s = <<>> ELSE no_record_id(record_id.n)

HandleChunk == files_to_convert("a")[1]

InitHandle ==
    /\ file_size_mb = 0 /\ num_pages = 0 /\ chunks = <<>> /\ plan_pc = "unused"
    /\ LockUnused
    /\ input = {} /\ pdfs = {} /\ mds = <<>> /\ concats = {} /\ done = {}
    /\ jobs = <<>> /\ dmn = <<>> /\ untouched = {}
    /\ locks = NoFiles
    /\ \E record_id \in RecordIds :
          cli = [pc |-> "uploaded", record_id |-> record_id, polled |-> <<>>]

\* upload_chunk lines 43-45
HandleRefused ==
    /\ cli.pc = "uploaded"
    /\ falsy(cli.record_id)
    /\ cli' = [cli EXCEPT !.pc = "failed"]
    /\ UNCHANGED <<plan_vars, lock_vars, fs_vars, jobs, dmn, untouched>>

\* upload_chunk lines 47-49
HandleWrite ==
    /\ cli.pc = "uploaded"
    /\ ~falsy(cli.record_id)
    /\ locks' = WriteFile(locks, HandleChunk, py_str(cli.record_id))
    /\ cli' = [cli EXCEPT !.pc = "locked"]
    /\ UNCHANGED <<plan_vars, lock_vars, input, pdfs, mds, concats, done, jobs,
                   dmn, untouched>>

\* retrieve_chunk lines 62-71 of a later run: no poll for an empty lock
HandleEmpty ==
    /\ cli.pc = "locked"
    /\ strip(locks[HandleChunk]) = <<>>
    /\ cli' = [cli EXCEPT !.pc = "empty"]
    /\ UNCHANGED <<plan_vars, lock_vars, fs_vars, jobs, dmn, untouched>>

\* retrieve_chunk lines 66-82 of a later run: poll /files/{record_id}
HandlePoll ==
    /\ cli.pc = "locked"
    /\ strip(locks[HandleChunk]) # <<>>
    /\ cli' = [cli EXCEPT !.pc = "polled", !.polled = strip(locks[HandleChunk])]
    /\ UNCHANGED <<plan_vars, lock_vars, fs_vars, jobs, dmn, untouched>>

NextHandle == HandleRefused \/ HandleWrite \/ HandleEmpty \/ HandlePoll

SpecHandle == InitHandle /\ [][NextHandle]_vars

Padded(text) ==
    text # <<>> /\ (Head(text) \in Whitespace \/ text[Len(text)] \in Whitespace)
InitPlan ==
    /\ LifeUnused
    /\ LockUnused
    /\ \E arg \in PlanInputs :
           /\ file_size_mb = arg[1]
           /\ num_pages = arg[2]
    /\ chunks = <<>>
    /\ plan_pc = "input"

PlanReturn ==
    /\ plan_pc = "input"
    /\ ~calculate_chunks_raises(file_size_mb, num_pages)
    /\ chunks' = calculate_chunks(file_size_mb, num_pages)
    /\ plan_pc' = "returned"
    /\ UNCHANGED <<file_size_mb, num_pages, life_vars, lock_vars>>

PlanRaise ==
    /\ plan_pc = "input"
    /\ calculate_chunks_raises(file_size_mb, num_pages)
    /\ plan_pc' = "ZeroDivisionError"
    /\ UNCHANGED <<file_size_mb, num_pages, chunks, life_vars, lock_vars>>

NextPlan == PlanReturn \/ PlanRaise

SpecPlan == InitPlan /\ [][NextPlan]_vars

(***************************************************************************)
(* C2: for every size and every page count >= 1 the returned ranges start  *)
(* at 1, end at the page count, each have end >= start, and each range     *)
(* starts one page after the previous one ends.                            *)
(***************************************************************************)
C2_Covers ==
    (plan_pc = "returned" /\ num_pages >= 1) =>
        /\ Len(chunks) >= 1
        /\ chunks[1][1] = 1
        /\ chunks[Len(chunks)][2] = num_pages
        /\ \A i \in 1..Len(chunks) : chunks[i][2] >= chunks[i][1]
        /\ \A i \in 1..(Len(chunks) - 1) : chunks[i][2] + 1 = chunks[i + 1][1]

\* A split by size into several ranges whose last range is truncated.
C2_Witness ==
    /\ plan_pc = "returned"
    /\ file_size_mb > 50
    /\ Len(chunks) >= 3
    /\ chunks[Len(chunks)][2] - chunks[Len(chunks)][1]
           < chunks[1][2] - chunks[1][1]


(***************************************************************************)
(* C17: with a size of at most 50 MB and 1 to 200 pages, both limits       *)
(* included, the plan is the single range (1, num_pages).                  *)
(***************************************************************************)
C17_SingleRange ==
    (plan_pc = "returned" /\ file_size_mb <= 50
        /\ num_pages >= 1 /\ num_pages <= 200) =>
        chunks = <<<<1, num_pages>>>>

C17_Witness ==
    /\ plan_pc = "returned" /\ file_size_mb = 50 /\ num_pages = 200
    /\ chunks = <<<<1, 200>>>>

(***************************************************************************)
(* C18 as stated: over 50 MB with any page count >= 1, and over 200 pages  *)
(* with any size, the plan has more than one range.                        *)
(***************************************************************************)
C18_MoreThanOne ==
    (plan_pc = "returned" /\ num_pages >= 1
        /\ (file_size_mb > 50 \/ num_pages > 200)) =>
        Len(chunks) > 1

(***************************************************************************)
(* C18: over 50 MB with at least two pages, and over 200 pages with any    *)
(* size, the plan has more than one range; a one-page document over 50 MB  *)
(* gets the single range (1, 1).                                           *)
(***************************************************************************)
C18_MoreThanOneIfSplittable ==
    plan_pc = "returned" =>
        /\ (file_size_mb > 50 /\ num_pages >= 2) => Len(chunks) > 1
        /\ num_pages > 200 => Len(chunks) > 1
        /\ (file_size_mb > 50 /\ num_pages = 1) => chunks = <<<<1, 1>>>>

C18_Witness ==
    /\ plan_pc = "returned" /\ file_size_mb = 51 /\ num_pages = 2
    /\ chunks = <<<<1, 1>>, <<2, 2>>>>

(***************************************************************************)
(* C19 as stated: over 50 MB with at least one page, every range but the   *)
(* last has exactly clamp(floor(40 / (size / pages)), 1, 190) pages, the   *)
(* floor being that of the exact quotient, and the last range has at most  *)
(* that many; the plan of (100 MB, 100 pages) is (1,40), (41,80), (81,100).*)
(***************************************************************************)
PagesIn(range) == range[2] - range[1] + 1
ExactPagesPerChunk(size, pages) == Max(1, Min((40 * pages) \div size, 190))

C19_ExactChunkSize ==
    (plan_pc = "returned" /\ file_size_mb > 50 /\ num_pages >= 1) =>
        /\ \A i \in 1..(Len(chunks) - 1) :
              PagesIn(chunks[i]) = ExactPagesPerChunk(file_size_mb, num_pages)
        /\ PagesIn(chunks[Len(chunks)])
              <= ExactPagesPerChunk(file_size_mb, num_pages)
        /\ (file_size_mb = 100 /\ num_pages = 100) =>
              chunks = <<<<1, 40>>, <<41, 80>>, <<81, 100>>>>

(***************************************************************************)
(* C20: with a size of at most 50 MB and more than 200 pages, the first    *)
(* range is (1, 190), every range before the last has exactly 190 pages    *)
(* and the last range has between 1 and 190 pages.                         *)
(***************************************************************************)
C20_SplitByPageCount ==
    (plan_pc = "returned" /\ file_size_mb <= 50 /\ num_pages > 200) =>
        /\ chunks[1] = <<1, 190>>
        /\ \A i \in 1..(Len(chunks) - 1) : PagesIn(chunks[i]) = 190
        /\ PagesIn(chunks[Len(chunks)]) >= 1
        /\ PagesIn(chunks[Len(chunks)]) <= 190

\* Three ranges, the last one shorter than 190 pages.
C20_Witness ==
    /\ plan_pc = "returned" /\ file_size_mb = 50 /\ num_pages = MaxPages
    /\ Len(chunks) = 3
    /\ PagesIn(chunks[2]) = 190
    /\ PagesIn(chunks[3]) < 190

(***************************************************************************)
(* C21 as stated: planning a document with zero pages or a negative size   *)
(* ends in an error and returns no range.                                  *)
(***************************************************************************)
C21_InvalidMetadataIsError ==
    (plan_pc # "input" /\ (num_pages = 0 \/ file_size_mb < 0)) =>
        /\ plan_pc # "returned"
        /\ chunks = <<>>

(***************************************************************************)
(* C31: with at least one page, no returned range has more than 200 pages, *)
(* and when the plan has more than one range none has more than 190.       *)
(***************************************************************************)
C31_PageCeiling ==
    (plan_pc = "returned" /\ num_pages >= 1) =>
        /\ \A i \in 1..Len(chunks) : PagesIn(chunks[i]) <= 200
        /\ Len(chunks) > 1 => \A i \in 1..Len(chunks) : PagesIn(chunks[i]) <= 190

\* A split by size whose 40 MB of pages would exceed 190.
C31_Witness ==
    /\ plan_pc = "returned" /\ file_size_mb = 51
    /\ pages_per_40mb(file_size_mb, num_pages) > 200
    /\ Len(chunks) > 1
    /\ PagesIn(chunks[1]) = 190

(***************************************************************************)
(* C32: over 50 MB with at least one page the loop ends, after at most one *)
(* iteration per page, and no range is empty; when the average page is     *)
(* over 40 MB (pages_per_40mb = 0) every range has exactly one page.       *)
(***************************************************************************)
C32_OnePagePerChunk ==
    (plan_pc # "input" /\ file_size_mb > 50 /\ num_pages >= 1) =>
        /\ plan_pc = "returned"
        /\ Len(chunks) >= 1 /\ Len(chunks) <= num_pages
        /\ \A i \in 1..Len(chunks) : PagesIn(chunks[i]) >= 1
        /\ 40 * num_pages < file_size_mb =>
              /\ Len(chunks) = num_pages
              /\ \A i \in 1..Len(chunks) : chunks[i] = <<i, i>>

C32_Witness ==
    /\ plan_pc = "returned" /\ file_size_mb \in HugeSizes
    /\ num_pages = MaxHugePages
    /\ pages_per_40mb(file_size_mb, num_pages) = 0
    /\ Len(chunks) = MaxHugePages

====
